---- MODULE Spec2Model ----
(***************************************************************************)
(* Model of src/src/worker.js: a Cloudflare Worker that receives Telegram  *)
(* updates, searches an external API for the message text and replies in   *)
(* the chat.  One request is handled at a time; every `await` of an        *)
(* outbound HTTP call is a step boundary, the outcome of the call being    *)
(* chosen by the environment when the call returns.                        *)
(*                                                                         *)
(* JavaScript values that may be undefined are modelled as sequences of    *)
(* length at most one: None is undefined, Some(v) is the value v.  A       *)
(* JavaScript string that the code inspects (message text, WORKER_URL) is  *)
(* a sequence of one-character strings; strings the code only builds are   *)
(* TLA+ strings.                                                           *)
(***************************************************************************)
EXTENDS Integers, Sequences, FiniteSets, TLC

VARIABLES env, request, pc, calls, inflight, results, response, uncaught

vars == <<env, request, pc, calls, inflight, results, response, uncaught>>

(* ----------------------------- bounds ---------------------------------- *)
MaxTextLen == 2   \* longest message text
MaxMsgId   == 2   \* message_id ranges over 1..MaxMsgId (Telegram ids are positive)
MaxTotal   == 2   \* total_files ranges over 0..MaxTotal
MaxFiles   == 1   \* length of the files array ranges over 0..MaxFiles

(* ----------------------------- values ---------------------------------- *)
None    == <<>>
Some(v) == <<v>>

Chars   == {" ", "/", "a"}
Strings(n) == UNION {[1..k -> Chars] : k \in 0..n}

RECURSIVE Str(_)
Str(s) == IF s = <<>> THEN "" ELSE Head(s) \o Str(Tail(s))

\* String.prototype.trim over the alphabet: " " is the only whitespace.
RECURSIVE trimStart(_)
trimStart(s) == IF s # <<>> /\ Head(s) = " " THEN trimStart(Tail(s)) ELSE s

RECURSIVE trimEnd(_)
trimEnd(s) ==
    IF s # <<>> /\ s[Len(s)] = " " THEN trimEnd(SubSeq(s, 1, Len(s) - 1)) ELSE s

trim(s) == trimEnd(trimStart(s))

startsWith(s, c) == s # <<>> /\ Head(s) = c

\* encodeURIComponent: letters are kept, " " and "/" are percent-escaped.
encodeChar(c) == IF c = " " THEN "%20" ELSE IF c = "/" THEN "%2F" ELSE c

RECURSIVE encodeURIComponent(_)
encodeURIComponent(s) ==
    IF s = <<>> THEN "" ELSE encodeChar(Head(s)) \o encodeURIComponent(Tail(s))

(* ---------------------------- the inputs ------------------------------- *)
ChatTypes == {"group", "supergroup", "private", "channel"}

Chats == {None} \cup {Some([id |-> 7, type |-> t]) : t \in ChatTypes}

Messages ==
    [message_id : 1..MaxMsgId,
     text       : {None} \cup {Some(t) : t \in Strings(MaxTextLen)},
     chat       : Chats]

Updates == {[message |-> None]} \cup {[message |-> Some(m)] : m \in Messages}

\* body = None: the request body is not JSON.
Requests ==
    [path   : {"/", "/setwebhook"},
     method : {"GET", "POST"},
     body   : {None} \cup {Some(u) : u \in Updates}]

Envs ==
    [BOT_TOKEN  : {None, Some(<<>>), Some(<<"T">>)},
     WORKER_URL : {None, Some(<<>>), Some(<<"a", "/", "a">>)}]

(* ------------------- outcomes of an outbound call ---------------------- *)
\* fetch() rejects (network error), or resolves to a response whose body
\* either is not JSON (json = None) or is the JSON value json[1].
NetworkError == [type |-> "throw"]
HttpResponse(ok, json) == [type |-> "response", ok |-> ok, json |-> json]

Files(n) == [i \in 1..n |-> "f"]

SearchData ==
    {[null |-> TRUE]} \cup
    {[null |-> FALSE, total_files |-> n, files |-> fs] :
        n \in 0..MaxTotal,
        fs \in {None} \cup {Some(Files(k)) : k \in 0..MaxFiles}}

\* A non-2xx search response has no JSON body or a JSON error object.
ErrorData == [null |-> FALSE, total_files |-> 0, files |-> None]

SearchOutcomes ==
    {NetworkError, HttpResponse(FALSE, None), HttpResponse(FALSE, Some(ErrorData)),
     HttpResponse(TRUE, None)}
    \cup {HttpResponse(TRUE, Some(d)) : d \in SearchData}

SendOutcomes ==
    {NetworkError, HttpResponse(TRUE, None), HttpResponse(FALSE, None)}

PlatformResults ==
    {[null |-> TRUE, raw |-> "null"],
     [null |-> FALSE, ok |-> TRUE,  raw |-> "{\"ok\": true, \"result\": true}"],
     [null |-> FALSE, ok |-> FALSE, raw |-> "{\"ok\": false, \"error_code\": 401}"],
     [null |-> FALSE, ok |-> FALSE, raw |-> "{}"]}

SetWebhookOutcomes ==
    {NetworkError, HttpResponse(FALSE, None)}
    \cup {HttpResponse(o, Some(r)) : o \in BOOLEAN, r \in PlatformResults}

(* -------------------- responses and handler steps ---------------------- *)
Response(body, status) == [status |-> status, body |-> body]
NoResponse == Response("", 0)

\* What a stretch of handler code between two awaits ends in: a returned
\* response, an outbound call that is awaited at position `next`, or a
\* thrown exception.
Return(resp)  == [next |-> "done", call |-> None, response |-> resp, thrown |-> FALSE]
Call(next, c) == [next |-> next, call |-> Some(c), response |-> NoResponse, thrown |-> FALSE]
Throw         == [next |-> "done", call |-> None, response |-> NoResponse, thrown |-> TRUE]

\* JavaScript truthiness of an optional string / of an optional number.
Truthy(opt)    == opt # None /\ opt[1] # <<>>
TruthyNum(opt) == opt # None /\ opt[1] # 0

(* ----------------------------- sendMessage ----------------------------- *)
sendMessage(token, chatId, text, replyMarkup, replyToMessageId) ==
    [kind    |-> "send",
     url     |-> "https://api.telegram.org/bot" \o Str(token) \o "/sendMessage",
     payload |-> [chat_id    |-> chatId,
                  text       |-> text,
                  parse_mode |-> "HTML",
                  reply_markup |-> IF replyMarkup # None THEN replyMarkup ELSE None,
                  reply_to_message_id |->
                      IF TruthyNum(replyToMessageId) THEN replyToMessageId ELSE None]]

NoticeText  == "I only work in group chats."
ApologyText == "Sorry, something went wrong while searching."

searchUrl(query) ==
    "https://tga-hd.api.hashhackers.com/files/search?q=" \o encodeURIComponent(query)

buttonUrl(query) ==
    "https://gods-eye.pages.dev/?q=" \o encodeURIComponent(query) \o "&t=files"

\* An inline keyboard: a sequence of rows, each a sequence of buttons.
replyMarkup(query) ==
    [inline_keyboard |-> << << [text |-> "Get Results", url |-> buttonUrl(query)] >> >>]

FoundText(resultCount, query) ==
    "Found " \o ToString(resultCount) \o " result(s) for \"" \o Str(query) \o "\"."

NoResultsText(query) ==
    "No results found for \"" \o Str(query) \o "\". Please try a different search term."

(* ----------------------------- handleUpdate ---------------------------- *)
Query(message) == trim(message.text[1])

\* Variant of IsGroupChat that also lets private chats through.
IsGroupChatOrPrivate(chatType) ==
    chatType = "group" \/ chatType = "supergroup" \/ chatType = "private"

\* Line 63, negated: the chat types the bot works in.
IsGroupChat(chatType) == chatType = "group" \/ chatType = "supergroup"

\* Variant of IsCommandOrEmpty without the empty-message test.
IsCommandOnly(query) == startsWith(query, "/")

\* Line 72: commands and empty messages are ignored.
IsCommandOrEmpty(query) == startsWith(query, "/") \/ query = <<>>

\* handleUpdate up to its first await (lines 51-79).
handleUpdate(update, botToken) ==
    IF update.message = None \/ ~Truthy(update.message[1].text)
    THEN Return(Response("OK", 200))
    ELSE LET message == update.message[1] IN
         IF message.chat = None
         THEN Throw                      \* message.chat.id of undefined
         ELSE LET chatId   == message.chat[1].id
                  chatType == message.chat[1].type
                  query    == Query(message)
              IN  IF ~IsGroupChat(chatType)
                  THEN IF chatType = "private"
                       THEN Call("notice",
                                 sendMessage(botToken, chatId, NoticeText, None, None))
                       ELSE Return(Response("OK", 200))
                  ELSE IF IsCommandOrEmpty(query)
                       THEN Return(Response("OK", 200))
                       ELSE Call("search", [kind |-> "search", url |-> searchUrl(query)])

\* The catch block of handleUpdate (lines 106-110).
catchSearchOrSend(message, botToken) ==
    Call("apology", sendMessage(botToken, message.chat[1].id, ApologyText, None, None))

HasFiles(searchData) ==
    /\ ~searchData.null
    /\ searchData.files # None
    /\ Len(searchData.files[1]) > 0

\* Variant of resultCount that counts the returned files.
resultCountFromLength(searchData) == Len(searchData.files[1])

\* Line 88.
resultCount(searchData) == searchData.total_files

\* Variant of SearchFailed without the status check of lines 80-82.
SearchFailedIgnoringStatus(outcome) ==
    outcome.type = "throw" \/ outcome.json = None

\* Lines 79-83: the search call rejected, answered non-2xx, or its body is
\* not JSON.

SearchFailed(outcome) ==
    outcome.type = "throw" \/ ~outcome.ok \/ outcome.json = None

\* handleUpdate from the return of the search call to the next await
\* (lines 79-104, and 106-109 when the try block throws).
afterSearch(message, botToken, outcome) ==
    IF SearchFailed(outcome)
    THEN catchSearchOrSend(message, botToken)
    ELSE LET searchData == outcome.json[1]
             query      == Query(message)
             chatId     == message.chat[1].id
         IN  IF HasFiles(searchData)
             THEN Call("reply",
                       sendMessage(botToken, chatId,
                                   FoundText(resultCount(searchData), query),
                                   Some(replyMarkup(query)),
                                   Some(message.message_id)))
             ELSE Call("reply",
                       sendMessage(botToken, chatId, NoResultsText(query),
                                   None, Some(message.message_id)))

\* The reply send returns inside the try block (lines 98-112).
afterReply(message, botToken, outcome) ==
    IF outcome.type = "throw"
    THEN catchSearchOrSend(message, botToken)
    ELSE Return(Response("OK", 200))

\* A send outside any try block of handleUpdate returns (lines 66-68, 109-112).
afterUnguardedSend(outcome) ==
    IF outcome.type = "throw" THEN Throw ELSE Return(Response("OK", 200))

\* The try/catch of fetch around request.json() and handleUpdate (lines 33-39).
catchInFetch(step) ==
    IF step.thrown THEN Return(Response("Invalid request body", 400)) ELSE step

(* ------------------------------ setWebhook ----------------------------- *)
setWebhook(botToken, e) ==
    IF ~Truthy(e.WORKER_URL)
    THEN Return(Response("WORKER_URL secret is not set", 500))
    ELSE Call("setWebhook",
              [kind |-> "setWebhook",
               url  |-> "https://api.telegram.org/bot" \o Str(botToken)
                        \o "/setWebhook?url=" \o encodeURIComponent(e.WORKER_URL[1])
                        \o "&drop_pending_updates=true"])

SuccessBody(webhookUrl, result) ==
    "Webhook set successfully to " \o Str(webhookUrl) \o "\n<pre>" \o result.raw \o "</pre>"

FailureBody(result) == "Failed to set webhook.\n<pre>" \o result.raw \o "</pre>"

\* Variant of afterSetWebhook that branches on the HTTP status instead of
\* the ok field of the platform's result.
afterSetWebhookHttpOk(e, outcome) ==
    IF outcome.type = "throw" \/ outcome.json = None \/ outcome.json[1].null
    THEN Throw
    ELSE LET result == outcome.json[1] IN
         IF outcome.ok
         THEN Return(Response(SuccessBody(e.WORKER_URL[1], result), 200))
         ELSE Return(Response(FailureBody(result), 500))

\* setWebhook from the return of the registration call (lines 165-177).
afterSetWebhook(e, outcome) ==
    IF outcome.type = "throw" \/ outcome.json = None \/ outcome.json[1].null
    THEN Throw
    ELSE LET result == outcome.json[1] IN
         IF result.ok
         THEN Return(Response(SuccessBody(e.WORKER_URL[1], result), 200))
         ELSE Return(Response(FailureBody(result), 500))

(* --------------------------- the fetch handler ------------------------- *)
HelloBody ==
    "Hello! This is the Telegram bot worker. Use the /setwebhook endpoint to configure the bot."

\* Variant of route that dispatches /setwebhook before the credential check.
routeWebhookFirst(e, r) ==
    IF r.path = "/setwebhook"
    THEN setWebhook(IF e.BOT_TOKEN = None THEN <<"undefined">> ELSE e.BOT_TOKEN[1], e)
    ELSE IF ~Truthy(e.BOT_TOKEN)
    THEN Return(Response("BOT_TOKEN secret is not set", 500))
    ELSE IF r.method = "POST"
    THEN IF r.body = None
         THEN catchInFetch(Throw)
         ELSE catchInFetch(handleUpdate(r.body[1], e.BOT_TOKEN[1]))
    ELSE Return(Response(HelloBody, 200))

\* fetch up to its first awaited outbound call (lines 17-43).
route(e, r) ==
    IF ~Truthy(e.BOT_TOKEN)
    THEN Return(Response("BOT_TOKEN secret is not set", 500))
    ELSE IF r.path = "/setwebhook"
    THEN setWebhook(e.BOT_TOKEN[1], e)
    ELSE IF r.method = "POST"
    THEN IF r.body = None
         THEN catchInFetch(Throw)
         ELSE catchInFetch(handleUpdate(r.body[1], e.BOT_TOKEN[1]))
    ELSE Return(Response(HelloBody, 200))

(* ------------------------------- actions ------------------------------- *)
\* Variant of Settle for a call that is issued but not awaited.
SettleNotAwaited(inflt, i) == inflt

\* The awaited call settles: it is no longer in flight.
Settle(inflt, i) == inflt \ {i}

\* Take the step: record the settled call's outcome, issue the next call or
\* finish the request.
Apply(cs, inflt, step) ==
    /\ pc' = step.next
    /\ response' = step.response
    /\ uncaught' = step.thrown
    /\ calls' = IF step.call # None THEN Append(cs, step.call[1]) ELSE cs
    /\ inflight' = IF step.call # None THEN inflt \cup {Len(cs) + 1} ELSE inflt

Returned(outcome, step) ==
    /\ results' = Append(results, outcome)
    /\ Apply(calls, Settle(inflight, Len(calls)), step)
    /\ UNCHANGED <<env, request>>

Message == request.body[1].message[1]
Token   == env.BOT_TOKEN[1]

fetch(e, r) ==
    /\ pc = "idle"
    /\ env' = e
    /\ request' = r
    /\ results' = <<>>
    /\ Apply(<<>>, {}, route(e, r))

NoticeSendReturns(outcome) ==
    /\ pc = "notice"
    /\ Returned(outcome, catchInFetch(afterUnguardedSend(outcome)))

SearchReturns(outcome) ==
    /\ pc = "search"
    /\ Returned(outcome, catchInFetch(afterSearch(Message, Token, outcome)))

ReplySendReturns(outcome) ==
    /\ pc = "reply"
    /\ Returned(outcome, catchInFetch(afterReply(Message, Token, outcome)))

ApologySendReturns(outcome) ==
    /\ pc = "apology"
    /\ Returned(outcome, catchInFetch(afterUnguardedSend(outcome)))

SetWebhookReturns(outcome) ==
    /\ pc = "setWebhook"
    /\ Returned(outcome, afterSetWebhook(env, outcome))

Init ==
    /\ env = [BOT_TOKEN |-> None, WORKER_URL |-> None]
    /\ request = [path |-> "/", method |-> "GET", body |-> None]
    /\ pc = "idle"
    /\ calls = <<>>
    /\ inflight = {}
    /\ results = <<>>
    /\ response = NoResponse
    /\ uncaught = FALSE

Next ==
    \/ \E e \in Envs, r \in Requests : fetch(e, r)
    \/ \E o \in SendOutcomes : NoticeSendReturns(o)
    \/ \E o \in SearchOutcomes : SearchReturns(o)
    \/ \E o \in SendOutcomes : ReplySendReturns(o)
    \/ \E o \in SendOutcomes : ApologySendReturns(o)
    \/ \E o \in SetWebhookOutcomes : SetWebhookReturns(o)

Spec == Init /\ [][Next]_vars

(* ------------------------ vocabulary of the claims --------------------- *)
Started  == pc # "idle"
Finished == pc = "done"

HasToken == env.BOT_TOKEN # None /\ env.BOT_TOKEN[1] # <<>>
HasWorkerUrl == env.WORKER_URL # None /\ env.WORKER_URL[1] # <<>>

\* The request is routed to the update handler.
UpdateRoute ==
    Started /\ HasToken /\ request.path # "/setwebhook" /\ request.method = "POST"

HasMessage == request.body # None /\ request.body[1].message # None
TheMessage == request.body[1].message[1]
HasText    == HasMessage /\ TheMessage.text # None /\ TheMessage.text[1] # <<>>
HasChat    == HasMessage /\ TheMessage.chat # None
ChatType   == TheMessage.chat[1].type
TrimmedText == trim(TheMessage.text[1])

\* The body is JSON and has the structure of an update: a message with text
\* comes with its chat.
ParsesAsUpdate == request.body # None /\ (HasText => HasChat)

SendCalls   == {i \in 1..Len(calls) : calls[i].kind = "send"}
SearchCalls == {i \in 1..Len(calls) : calls[i].kind = "search"}

IsApology(c) ==
    /\ c.kind = "send"
    /\ c.payload.text = "Sorry, something went wrong while searching."
    /\ c.payload.reply_markup = None
    /\ c.payload.reply_to_message_id = None

\* The update is a searchable group message: the search call is calls[1].
GroupQuery ==
    /\ UpdateRoute /\ HasText /\ HasChat
    /\ ChatType \in {"group", "supergroup"}
    /\ TrimmedText # <<>> /\ Head(TrimmedText) # "/"

(* -------------------------------- C1 ----------------------------------- *)
\* C1: every POST on the update route whose body parses as an update is
\* answered with HTTP 200, whatever the search and send calls do.
C1_AlwaysAcknowledged ==
    (Finished /\ UpdateRoute /\ ParsesAsUpdate) => response.status = 200

(* -------------------------------- C2 ----------------------------------- *)
\* C2: without BOT_TOKEN every request, for any path and method, is answered
\* with HTTP 500 'BOT_TOKEN secret is not set' and no outbound call is made.
C2_MissingToken ==
    (Started /\ ~HasToken) =>
        /\ Finished
        /\ ~uncaught
        /\ response.status = 500
        /\ response.body = "BOT_TOKEN secret is not set"
        /\ calls = <<>>

C2_Witness ==
    /\ Finished /\ ~HasToken
    /\ request.path = "/setwebhook" /\ request.method = "POST"
    /\ HasWorkerUrl
    /\ response.status = 500

(* -------------------------------- C3 ----------------------------------- *)
\* C3: HTTP 400 'Invalid request body' is answered only when the POST body
\* failed to parse as an update, and then no outbound call was attempted.
C3_BadRequestOnlyOnParseFailure ==
    (Finished /\ response.status = 400) =>
        /\ request.method = "POST"
        /\ ~ParsesAsUpdate
        /\ calls = <<>>

(* -------------------------------- C4 ----------------------------------- *)
\* C4: an update without message text, or with a chat type outside
\* {group, supergroup, private}, or a group/supergroup message whose trimmed
\* text is empty or starts with '/', causes no outbound call and is answered
\* with HTTP 200.
SilentCase ==
    /\ UpdateRoute /\ request.body # None
    /\ \/ ~HasText
       \/ HasChat /\ ChatType \notin {"group", "supergroup", "private"}
       \/ /\ HasChat /\ ChatType \in {"group", "supergroup"}
          /\ (TrimmedText = <<>> \/ Head(TrimmedText) = "/")

C4_SilentAcknowledgement ==
    SilentCase => (Finished /\ ~uncaught /\ calls = <<>> /\ response.status = 200)

C4_Witness ==
    /\ Finished /\ SilentCase /\ HasText /\ HasChat
    /\ ChatType = "supergroup"
    /\ TheMessage.text[1] = <<" ", " ">>
    /\ calls = <<>> /\ response.status = 200

(* -------------------------------- C5 ----------------------------------- *)
\* C5: a text message in a private chat causes exactly one send call, the
\* notice 'I only work in group chats.' without button and without reply-to
\* id, and no search call, whatever the text.
PrivateCase == UpdateRoute /\ HasText /\ HasChat /\ ChatType = "private"

C5_PrivateNotice ==
    PrivateCase =>
        /\ Len(calls) = 1
        /\ calls[1].kind = "send"
        /\ calls[1].payload.text = "I only work in group chats."
        /\ calls[1].payload.reply_markup = None
        /\ calls[1].payload.reply_to_message_id = None

C5_Witness ==
    /\ Finished /\ PrivateCase
    /\ Head(TrimmedText) = "/"
    /\ Len(calls) = 1 /\ Len(results) = 1

(* -------------------------------- C6 ----------------------------------- *)
\* C6: when the search call succeeds for a group query q, the first send is
\* a reply to the original message; with a non-empty files array its text is
\* 'Found <total_files> result(s) for "q".' and it carries exactly one inline
\* button whose URL has q=<urlencoded q>&t=files; otherwise its text is
\* 'No results found for "q". Please try a different search term.' and it
\* carries no button.
SearchSucceeded ==
    /\ GroupQuery /\ Len(results) >= 1
    /\ results[1].type = "response" /\ results[1].ok /\ results[1].json # None

SearchDataOf == results[1].json[1]

FilesNonEmpty ==
    ~SearchDataOf.null /\ SearchDataOf.files # None /\ SearchDataOf.files[1] # <<>>

C6_ReplyFollowsResult ==
    SearchSucceeded =>
        /\ Len(calls) >= 2
        /\ calls[2].kind = "send"
        /\ calls[2].payload.reply_to_message_id = <<TheMessage.message_id>>
        /\ IF FilesNonEmpty
           THEN /\ calls[2].payload.text =
                     "Found " \o ToString(SearchDataOf.total_files)
                     \o " result(s) for \"" \o Str(TrimmedText) \o "\"."
                /\ calls[2].payload.reply_markup # None
                /\ LET keyboard == calls[2].payload.reply_markup[1].inline_keyboard
                   IN  /\ Len(keyboard) = 1
                       /\ Len(keyboard[1]) = 1
                       /\ keyboard[1][1].url =
                            "https://gods-eye.pages.dev/?q="
                            \o encodeURIComponent(TrimmedText) \o "&t=files"
           ELSE /\ calls[2].payload.text =
                     "No results found for \"" \o Str(TrimmedText)
                     \o "\". Please try a different search term."
                /\ calls[2].payload.reply_markup = None

C6_Witness ==
    /\ Finished /\ SearchSucceeded /\ FilesNonEmpty
    /\ TrimmedText = <<"a", "/">>
    /\ SearchDataOf.total_files # Len(SearchDataOf.files[1])
    /\ calls[2].payload.text = "Found 2 result(s) for \"a/\"."
    /\ calls[2].payload.reply_markup[1].inline_keyboard[1][1].url =
           "https://gods-eye.pages.dev/?q=a%2F&t=files"

(* -------------------------------- C7 ----------------------------------- *)
\* C7: when the search call throws or returns a non-2xx status, exactly one
\* send is attempted, the apology without button and without reply-to id;
\* neither the 'Found' nor the 'No results found' reply is sent.
SearchThrewOrNon2xx ==
    /\ GroupQuery /\ Len(results) >= 1
    /\ (results[1].type = "throw" \/ ~results[1].ok)

C7_ApologyOnSearchFailure ==
    SearchThrewOrNon2xx =>
        /\ Len(calls) = 2
        /\ SendCalls = {2}
        /\ IsApology(calls[2])

C7_Witness ==
    /\ Finished /\ SearchThrewOrNon2xx
    /\ results[1].type = "response" /\ results[1].json # None
    /\ Len(results) = 2 /\ IsApology(calls[2])

(* -------------------------------- C8 ----------------------------------- *)
\* C8: /setwebhook with the credential set, whatever the method: without
\* WORKER_URL the answer is HTTP 500 and no call is made; otherwise exactly
\* one registration call and no other call is made, and the answer is 200
\* when the platform's result reports ok and 500 when it does not, the body
\* embedding the raw platform response.
WebhookRoute == Started /\ HasToken /\ request.path = "/setwebhook"

PlatformAnswered ==
    /\ Finished /\ Len(results) = 1
    /\ results[1].type = "response"
    /\ results[1].json # None
    /\ ~results[1].json[1].null

C8_SetWebhook ==
    WebhookRoute =>
        IF ~HasWorkerUrl
        THEN Finished /\ response.status = 500 /\ calls = <<>>
        ELSE /\ Len(calls) = 1
             /\ calls[1].kind = "setWebhook"
             /\ PlatformAnswered =>
                  LET result == results[1].json[1] IN
                  IF result.ok
                  THEN /\ response.status = 200
                       /\ response.body =
                            "Webhook set successfully to " \o Str(env.WORKER_URL[1])
                            \o "\n<pre>" \o result.raw \o "</pre>"
                  ELSE /\ response.status = 500
                       /\ response.body =
                            "Failed to set webhook.\n<pre>" \o result.raw \o "</pre>"

C8_Witness ==
    /\ WebhookRoute /\ HasWorkerUrl /\ PlatformAnswered
    /\ request.method = "POST"
    /\ ~results[1].ok /\ results[1].json[1].ok
    /\ response.status = 200

(* -------------------------------- C9 ----------------------------------- *)
\* C9: when the send of the search reply throws, exactly one apology send is
\* attempted afterwards; if the apology send throws too, no further call is
\* made and the error is swallowed: the request is not answered with an
\* error.
ReplySendThrew ==
    GroupQuery /\ Len(results) >= 2 /\ results[2].type = "throw"
    /\ ~IsApology(calls[2])

C9_ApologyFailureSwallowed ==
    ReplySendThrew =>
        /\ Len(calls) = 3
        /\ IsApology(calls[3])
        /\ (Finished /\ results[3].type = "throw") =>
               (~uncaught /\ response.status = 200)

(* -------------------------------- C10 ---------------------------------- *)
\* C10: within one request at most one outbound call is in flight, at most
\* one search call is made, a send in the group path starts only after the
\* search call has settled, and at most two sends are made, the second of
\* which is the apology.
C10_SequentialAndBounded ==
    /\ Cardinality(inflight) <= 1
    /\ Cardinality(SearchCalls) <= 1
    /\ Cardinality(SendCalls) <= 2
    /\ \A i \in SendCalls :
          /\ (SearchCalls # {}) =>
                \E j \in SearchCalls : j < i /\ j \notin inflight /\ Len(results) >= j
          /\ (\E k \in SendCalls : k < i) => IsApology(calls[i])

C10_Witness ==
    /\ GroupQuery /\ pc = "apology"
    /\ Len(calls) = 3 /\ Len(results) = 2
    /\ inflight = {3}
    /\ results[2].type = "throw"

====
